---- MODULE Spec2Model ----
(***************************************************************************)
(* Healthcare appointment booking: the Appointment Service                 *)
(* (routes/appointmentRoutes.js), the Feedback Service                     *)
(* (routes/feedbackRoutes.js), the Notification Service                   *)
(* (routes/notificationRoutes.js) and the parts of the Doctor Service they *)
(* call, as a state machine over the document stores and the request       *)
(* handlers in flight.  A handler is cut at its awaits on a database       *)
(* or on another service: each piece between two awaits is one action.     *)
(*                                                                         *)
(* Strings that the code parses or formats (times of day) are sequences    *)
(* of one-character strings, so that split, Number and padStart are        *)
(* computed.  Dates are instants in seconds since the epoch; a date        *)
(* string "YYYY-MM-DD" is the number of its day.                           *)
(***************************************************************************)
EXTENDS Integers, Sequences, FiniteSets, TLC

VARIABLES
    appointments,   \* Appointment collection: sequence of documents, _id = index
    feedbacks,      \* Feedback collection: sequence of documents
    doctors,        \* Doctor collection: doctor _id -> document
    h,              \* per slot: a request handler in flight, or the POST to the
                    \* Notification Service that a handler left pending
    resp,           \* the HTTP response to the latest request, until a handler
                    \* takes its next step
    tz,             \* the server's offset from UTC, in seconds
    notifications   \* Notification collection: sequence of documents, _id = index

vars == <<appointments, feedbacks, doctors, h, resp, tz, notifications>>

----------------------------------------------------------------------------
(* Bounds *)

MaxAppts == 2

MaxInflight == 2

MaxDoctors == 4

----------------------------------------------------------------------------
(* Users (User Service accounts) and their roles *)

Patients == {"p1", "p2"}

DoctorUsers == {"u1", "u2", "u3"}

Admins == {"a1"}

Users == Patients \cup DoctorUsers \cup Admins

Role(u) ==
    IF u \in Patients THEN "patient"
    ELSE IF u \in DoctorUsers THEN "doctor"
    ELSE "admin"

Statuses == {"scheduled", "completed", "cancelled"}

----------------------------------------------------------------------------
(* Strings as sequences of characters *)

Digits == <<"0", "1", "2", "3", "4", "5", "6", "7", "8", "9">>

NaN == 0 - 1

IsDigit(c) == \E i \in 1..10 : Digits[i] = c

DigitVal(c) == (CHOOSE i \in 1..10 : Digits[i] = c) - 1

\* Code-unit order of the characters that occur in times: '0'..'9' < ':'
CharCode(c) == IF IsDigit(c) THEN 48 + DigitVal(c) ELSE 58

RECURSIVE StrLess(_, _)
StrLess(s, t) ==
    IF t = <<>> THEN FALSE
    ELSE IF s = <<>> THEN TRUE
    ELSE IF CharCode(Head(s)) # CharCode(Head(t))
         THEN CharCode(Head(s)) < CharCode(Head(t))
    ELSE StrLess(Tail(s), Tail(t))

RECURSIVE SplitAcc(_, _, _)
SplitAcc(s, sep, cur) ==
    IF s = <<>> THEN <<cur>>
    ELSE IF Head(s) = sep THEN <<cur>> \o SplitAcc(Tail(s), sep, <<>>)
    ELSE SplitAcc(Tail(s), sep, Append(cur, Head(s)))

\* String.prototype.split(sep) for a one-character separator
Split(s, sep) == SplitAcc(s, sep, <<>>)

RECURSIVE DigitsValue(_, _)
DigitsValue(s, acc) ==
    IF s = <<>> THEN acc
    ELSE DigitsValue(Tail(s), acc * 10 + DigitVal(Head(s)))

\* Number(s) for the strings that occur: "" is 0, a digit string its value,
\* anything else NaN
Number(s) ==
    IF \A k \in 1..Len(s) : IsDigit(s[k]) THEN DigitsValue(s, 0) ELSE NaN

\* the k-th element of a destructured array; a missing element is undefined,
\* which every comparison and sum treats as NaN does
Nth(parts, k) == IF k <= Len(parts) THEN Number(parts[k]) ELSE NaN

RECURSIVE NumToString(_)
NumToString(n) ==
    IF n < 10 THEN <<Digits[n + 1]>>
    ELSE NumToString(n \div 10) \o <<Digits[(n % 10) + 1]>>

\* n.toString().padStart(2, '0')
PadStart2(n) == IF n < 10 THEN <<"0">> \o NumToString(n) ELSE NumToString(n)

\* `${hh}:${mm}`
TimeString(hour, minute) == PadStart2(hour) \o <<":">> \o PadStart2(minute)

----------------------------------------------------------------------------
(* Dates *)

DaySeconds == 24 * 60 * 60

WeekdayNames ==
    <<"Sunday", "Monday", "Tuesday", "Wednesday", "Thursday", "Friday", "Saturday">>

\* new Date("YYYY-MM-DD"): midnight UTC of that day
ParseDate(day) == day * DaySeconds

\* the instant's time of day on the server's clock, in seconds
LocalTimeOfDay(t, offset) == (t + offset) % DaySeconds

\* new Date(t).setHours(hh, mm, ss): the same local day at hh:mm:ss
SetHours(t, offset, hh, mm, ss) ==
    t - LocalTimeOfDay(t, offset) + (hh * 3600 + mm * 60 + ss)

\* Intl.DateTimeFormat('en-US', {weekday: 'long'}).format(t); day 0 of the
\* epoch is a Thursday
DayOfWeek(t, offset) == WeekdayNames[((((t + offset) \div DaySeconds) + 4) % 7) + 1]

----------------------------------------------------------------------------
(* Doctor Service: the Doctor collection *)

DoctorIds == {"D1", "D2"}

\* a string that does not cast to an ObjectId
BadId == "not-an-id"

\* the same for the appointment _ids, which are the indexes from 1
BadApptId == 0

t0900 == <<"0", "9", ":", "0", "0">>

t0930 == <<"0", "9", ":", "3", "0">>

t1000 == <<"1", "0", ":", "0", "0">>

t1030 == <<"1", "0", ":", "3", "0">>

\* the weekly templates the two doctors have stored (PUT /api/doctors/:id/slots
\* stores whatever array it is given)
InitialSlots(d) ==
    IF d = "D1"
    THEN << [day |-> "Sunday",  startTime |-> t0900, endTime |-> t1000, isAvailable |-> TRUE],
            [day |-> "Monday",  startTime |-> t0900, endTime |-> t1030, isAvailable |-> TRUE],
            [day |-> "Tuesday", startTime |-> t0900, endTime |-> t1000, isAvailable |-> FALSE] >>
    ELSE << [day |-> "Monday",  startTime |-> t0930, endTime |-> t1030, isAvailable |-> TRUE],
            [day |-> "Tuesday", startTime |-> t0900, endTime |-> t1000, isAvailable |-> TRUE] >>

\* Doctor.findOne({ userId }): the _ids of the profiles of that user
DoctorFindByUser(userId) == {d \in DOMAIN doctors : doctors[d].userId = userId}

----------------------------------------------------------------------------
(* Appointment Service: queries on the Appointment collection *)

ApptIds == 1..Len(appointments)

\* as ExistingAppointment, but the date string is compared uncast
ExistingAppointmentRawDate(doctorId, date, startTime) ==
    {id \in ApptIds :
        /\ appointments[id].doctorId = doctorId
        /\ appointments[id].date = date
        /\ appointments[id].startTime = startTime
        /\ appointments[id].status # "cancelled"}

\* Appointment.findOne({doctorId, date: new Date(date), startTime,
\*                      status: {$ne: 'cancelled'}})
ExistingAppointment(doctorId, date, startTime) ==
    {id \in ApptIds :
        /\ appointments[id].doctorId = doctorId
        /\ appointments[id].date = ParseDate(date)
        /\ appointments[id].startTime = startTime
        /\ appointments[id].status # "cancelled"}

\* as BookedAppointments, but with $gt for $gte
BookedAppointmentsAfter(doctorId, date) ==
    {id \in ApptIds :
        /\ appointments[id].doctorId = doctorId
        /\ appointments[id].date > SetHours(ParseDate(date), tz, 0, 0, 0)
        /\ appointments[id].date < SetHours(ParseDate(date), tz, 23, 59, 59)
        /\ appointments[id].status # "cancelled"}

\* Appointment.find({doctorId, date: {$gte: start of the local day,
\*                  $lt: 23:59:59 of the local day}, status: {$ne: 'cancelled'}})
BookedAppointments(doctorId, date) ==
    {id \in ApptIds :
        /\ appointments[id].doctorId = doctorId
        /\ appointments[id].date >= SetHours(ParseDate(date), tz, 0, 0, 0)
        /\ appointments[id].date < SetHours(ParseDate(date), tz, 23, 59, 59)
        /\ appointments[id].status # "cancelled"}

\* bookedTimes: the Set of the startTime strings of the booked appointments
BookedTimes(doctorId, date) ==
    {appointments[id].startTime : id \in BookedAppointments(doctorId, date)}

\* a comparison of two numbers, false when either is NaN
NumLess(a, b) == a # NaN /\ b # NaN /\ a < b

NumEq(a, b) == a # NaN /\ b # NaN /\ a = b

\* the while loop over one template entry: emit the current time unless it
\* is booked, then add 30 minutes, carrying into the hour by resetting the
\* minute to 0
RECURSIVE SlotWalk(_, _, _, _, _)
SlotWalk(currentHour, currentMinute, endHour, endMinute, bookedTimes) ==
    IF NumLess(currentHour, endHour)
         \/ (NumEq(currentHour, endHour) /\ NumLess(currentMinute, endMinute))
    THEN LET timeString == TimeString(currentHour, currentMinute)
             emitted == IF timeString \in bookedTimes THEN <<>> ELSE <<timeString>>
             minute == currentMinute + 30
         IN  emitted \o
             (IF minute >= 60
              THEN SlotWalk(currentHour + 1, 0, endHour, endMinute, bookedTimes)
              ELSE SlotWalk(currentHour, minute, endHour, endMinute, bookedTimes))
    ELSE <<>>

\* one template entry: parse "HH:MM" start and end, then walk
EntrySlots(slot, bookedTimes) ==
    LET start == Split(slot.startTime, ":")
        end   == Split(slot.endTime, ":")
    IN  SlotWalk(Nth(start, 1), Nth(start, 2), Nth(end, 1), Nth(end, 2), bookedTimes)

\* as DaySlots, but without the test of isAvailable
DaySlotsAnyAvailability(template, dayOfWeek) ==
    SelectSeq(template, LAMBDA slot : slot.day = dayOfWeek)

\* doctor.availableSlots.filter(slot => slot.day === dayOfWeek && slot.isAvailable)
DaySlots(template, dayOfWeek) ==
    SelectSeq(template, LAMBDA slot : slot.day = dayOfWeek /\ slot.isAvailable)

RECURSIVE AllEntrySlots(_, _)
AllEntrySlots(daySlots, bookedTimes) ==
    IF daySlots = <<>> THEN <<>>
    ELSE EntrySlots(Head(daySlots), bookedTimes)
            \o AllEntrySlots(Tail(daySlots), bookedTimes)

\* the list GET /doctor/:doctorId/available answers with
AvailableSlots(doctorId, date) ==
    AllEntrySlots(
        DaySlots(doctors[doctorId].availableSlots, DayOfWeek(ParseDate(date), tz)),
        BookedTimes(doctorId, date))

----------------------------------------------------------------------------
(* Request handlers *)

Slots == 1..MaxInflight

Idle == [kind |-> "idle"]

\* a request is taken by the lowest free slot
CanStart(i) ==
    /\ h[i] = Idle
    /\ \A j \in Slots : j < i => h[j] # Idle

\* the step sends no response
NoResponse == [op |-> "none", code |-> 0]

\* res.status(code).json(...): the handler ends
Respond(i, r) ==
    /\ resp' = r
    /\ h' = [h EXCEPT ![i] = Idle]

\* a query parameter that the request does not carry
Undefined == 0 - 1

\* offsets from UTC the server may run under: UTC-5, UTC, UTC+5:30
TimeZones == {0 - 5 * 3600, 0, 5 * 3600 + 1800}

Init ==
    /\ appointments = <<>>
    /\ feedbacks = <<>>
    /\ doctors = [d \in DoctorIds |->
                    [userId |-> IF d = "D1" THEN "u1" ELSE "u2",
                     availableSlots |-> InitialSlots(d)]]
    /\ h = [i \in Slots |-> Idle]
    /\ resp = NoResponse
    /\ tz \in TimeZones
    /\ notifications = <<>>

----------------------------------------------------------------------------
(* POST /api/appointments *)

NewAppointment(patientId, doctorId, date, startTime, endTime, reason) ==
    [patientId |-> patientId, doctorId |-> doctorId, date |-> ParseDate(date),
     startTime |-> startTime, endTime |-> endTime, status |-> "scheduled",
     reason |-> reason, notes |-> "", notificationSent |-> FALSE]

\* validation, then the findOne for a non-cancelled appointment in the slot;
\* a doctorId that does not cast makes the findOne throw, which the catch
\* answers with 500
Book_Check(i, caller, doctorId, date, startTime, endTime, reason) ==
    /\ CanStart(i)
    /\ LET req == [caller |-> caller, doctorId |-> doctorId, date |-> date,
                   startTime |-> startTime]
       IN
       IF startTime = <<>> \/ endTime = <<>>
       THEN /\ Respond(i, [op |-> "book", code |-> 400, req |-> req,
                           message |-> "validation"])
            /\ UNCHANGED <<appointments, feedbacks, doctors, tz, notifications>>
       ELSE IF doctorId = BadId
       THEN /\ Respond(i, [op |-> "book", code |-> 500, req |-> req,
                           message |-> "Server error"])
            /\ UNCHANGED <<appointments, feedbacks, doctors, tz, notifications>>
       ELSE IF ExistingAppointment(doctorId, date, startTime) # {}
       THEN /\ Respond(i, [op |-> "book", code |-> 400, req |-> req,
                           message |-> "This time slot is already booked"])
            /\ UNCHANGED <<appointments, feedbacks, doctors, tz, notifications>>
       ELSE /\ Len(appointments)
                 + Cardinality({j \in Slots : h[j].kind = "book"}) < MaxAppts
            /\ h' = [h EXCEPT ![i] =
                        [kind |-> "book", pc |-> "save", req |-> req,
                         doc |-> NewAppointment(caller, doctorId, date, startTime,
                                                endTime, reason)]]
            /\ resp' = NoResponse
            /\ UNCHANGED <<appointments, feedbacks, doctors, tz, notifications>>

\* as Book_Save, but the save repeats the existence check and refuses the
\* document when the slot has been taken since
Book_SaveRechecked(i) ==
    /\ h[i].kind = "book" /\ h[i].pc = "save"
    /\ IF ExistingAppointment(h[i].req.doctorId, h[i].req.date, h[i].req.startTime) # {}
       THEN /\ Respond(i, [op |-> "book", code |-> 400, req |-> h[i].req,
                           message |-> "This time slot is already booked"])
            /\ UNCHANGED <<appointments, feedbacks, doctors, tz, notifications>>
       ELSE /\ appointments' = Append(appointments, h[i].doc)
            /\ h' = [h EXCEPT ![i] = [kind |-> "book", pc |-> "notify", req |-> h[i].req,
                                      doc |-> h[i].doc, id |-> Len(appointments) + 1]]
            /\ resp' = NoResponse
            /\ UNCHANGED <<feedbacks, doctors, tz, notifications>>

\* await appointment.save()
Book_Save(i) ==
    /\ h[i].kind = "book" /\ h[i].pc = "save"
    /\ appointments' = Append(appointments, h[i].doc)
    /\ h' = [h EXCEPT ![i] = [kind |-> "book", pc |-> "notify", req |-> h[i].req,
                              doc |-> h[i].doc, id |-> Len(appointments) + 1]]
    /\ resp' = NoResponse
    /\ UNCHANGED <<feedbacks, doctors, tz, notifications>>

\* axios.post to the Notification Service, not awaited; then 201
Book_Respond(i) ==
    /\ h[i].kind = "book" /\ h[i].pc = "notify"
    /\ h' = [h EXCEPT ![i] = [kind |-> "notification", appointmentId |-> h[i].id,
                              type |-> "new"]]
    /\ resp' = [op |-> "book", code |-> 201, req |-> h[i].req,
                id |-> h[i].id, body |-> h[i].doc]
    /\ UNCHANGED <<appointments, feedbacks, doctors, tz, notifications>>

\* as NotificationSettled, but a failed notification cancels the appointment
NotificationSettledRollback(i, outcome) ==
    /\ h[i].kind = "notification"
    /\ outcome \in {"delivered", "failed"}
    /\ h' = [h EXCEPT ![i] = Idle]
    /\ appointments' =
         IF outcome = "failed"
         THEN [appointments EXCEPT ![h[i].appointmentId].status = "cancelled"]
         ELSE appointments
    /\ UNCHANGED <<feedbacks, doctors, resp, tz, notifications>>

\* the notification request ends: delivered, or failed and logged by .catch
NotificationSettled(i, outcome) ==
    /\ h[i].kind = "notification"
    /\ outcome \in {"delivered", "failed"}
    /\ h' = [h EXCEPT ![i] = Idle]
    /\ UNCHANGED <<appointments, feedbacks, doctors, resp, tz, notifications>>

----------------------------------------------------------------------------
(* PUT /api/appointments/:id/status *)

\* as RoleCheck, but without the comparison of the caller with patientId
RoleCheckAnyPatient(caller, appointment, status) ==
    IF Role(caller) # "admin"
    THEN IF Role(caller) = "patient"
         THEN IF status # "cancelled" THEN "403" ELSE "ok"
         ELSE IF Role(caller) = "doctor" THEN "lookup"
         ELSE "ok"
    ELSE "ok"

\* the role checks that need no lookup: "ok", "lookup" (doctor) or 403
RoleCheck(caller, appointment, status) ==
    IF Role(caller) # "admin"
    THEN IF Role(caller) = "patient"
         THEN IF caller # appointment.patientId THEN "403"
              ELSE IF status # "cancelled" THEN "403"
              ELSE "ok"
         ELSE IF Role(caller) = "doctor" THEN "lookup"
         ELSE "ok"
    ELSE "ok"

\* validation, findById and the role checks up to the doctor lookup
Status_Find(i, caller, id, status, notes) ==
    /\ CanStart(i)
    /\ LET req == [caller |-> caller, id |-> id, status |-> status, notes |-> notes]
           out == [op |-> "status", req |-> req]
       IN
       IF status \notin {"scheduled", "completed", "cancelled"}
       THEN /\ Respond(i, out @@ [code |-> 400])
            /\ UNCHANGED <<appointments, feedbacks, doctors, tz, notifications>>
       ELSE IF id \notin ApptIds
       THEN /\ Respond(i, out @@ [code |-> 404])
            /\ UNCHANGED <<appointments, feedbacks, doctors, tz, notifications>>
       ELSE IF RoleCheck(caller, appointments[id], status) = "403"
       THEN /\ Respond(i, out @@ [code |-> 403])
            /\ UNCHANGED <<appointments, feedbacks, doctors, tz, notifications>>
       ELSE /\ h' = [h EXCEPT ![i] =
                        [kind |-> "status",
                         pc |-> IF RoleCheck(caller, appointments[id], status) = "lookup"
                                THEN "lookup" ELSE "save",
                         req |-> req, doc |-> appointments[id]]]
            /\ resp' = NoResponse
            /\ UNCHANGED <<appointments, feedbacks, doctors, tz, notifications>>

\* as DoctorCheck, but any doctor with a profile passes
DoctorCheckAnyProfile(caller, appointment, answered) ==
    IF ~answered \/ DoctorFindByUser(caller) = {} THEN "500" ELSE "ok"

\* the answer of GET /api/doctors/user/:userId to the doctor's check: the lookup
\* throws (no answer, or 404 for a user with no profile), or gives a profile
DoctorCheck(caller, appointment, answered) ==
    IF ~answered \/ DoctorFindByUser(caller) = {} THEN "500"
    ELSE IF (CHOOSE d \in DoctorFindByUser(caller) : TRUE) # appointment.doctorId
    THEN "403"
    ELSE "ok"

Status_Lookup(i, answered) ==
    /\ h[i].kind = "status" /\ h[i].pc = "lookup"
    /\ LET out == [op |-> "status", req |-> h[i].req, answered |-> answered]
           check == DoctorCheck(h[i].req.caller, h[i].doc, answered)
       IN
       IF check = "500"
       THEN /\ Respond(i, out @@ [code |-> 500])
            /\ UNCHANGED <<appointments, feedbacks, doctors, tz, notifications>>
       ELSE IF check = "403"
       THEN /\ Respond(i, out @@ [code |-> 403])
            /\ UNCHANGED <<appointments, feedbacks, doctors, tz, notifications>>
       ELSE /\ h' = [h EXCEPT ![i].pc = "save"]
            /\ resp' = NoResponse
            /\ UNCHANGED <<appointments, feedbacks, doctors, tz, notifications>>

\* as Updated, but the notes of the request are assigned also when empty
UpdatedAlwaysNotes(doc, status, notes) ==
    [doc EXCEPT !.status = status, !.notes = notes]

\* appointment.status = status; if (notes) appointment.notes = notes
Updated(doc, status, notes) ==
    [doc EXCEPT !.status = status, !.notes = IF notes # "" THEN notes ELSE @]

\* await appointment.save(): the document loaded by findById is written back;
\* a save writes the paths whose value the handler changed and no others
SavedOver(stored, loaded, changed) ==
    [stored EXCEPT
        !.status = IF changed.status # loaded.status THEN changed.status ELSE @,
        !.notes  = IF changed.notes # loaded.notes THEN changed.notes ELSE @]

Status_Save(i) ==
    /\ h[i].kind = "status" /\ h[i].pc = "save"
    /\ LET changed == Updated(h[i].doc, h[i].req.status, h[i].req.notes)
       IN  /\ appointments' =
                [appointments EXCEPT ![h[i].req.id] = SavedOver(@, h[i].doc, changed)]
           /\ h' = [h EXCEPT ![i].pc = "notify", ![i].doc = changed]
    /\ resp' = NoResponse
    /\ UNCHANGED <<feedbacks, doctors, tz, notifications>>

\* axios.post to the Notification Service, not awaited; then 200
Status_Respond(i) ==
    /\ h[i].kind = "status" /\ h[i].pc = "notify"
    /\ h' = [h EXCEPT ![i] = [kind |-> "notification", appointmentId |-> h[i].req.id,
                              type |-> h[i].req.status]]
    /\ resp' = [op |-> "status", code |-> 200, req |-> h[i].req, body |-> h[i].doc]
    /\ UNCHANGED <<appointments, feedbacks, doctors, tz, notifications>>

----------------------------------------------------------------------------
(* GET /api/appointments/doctor/:doctorId/available *)

AvailableResponse(doctorId, date, answered) ==
    LET out == [op |-> "available", doctorId |-> doctorId, date |-> date,
                answered |-> answered]
    IN
    IF date = Undefined
    THEN out @@ [code |-> 400]
    ELSE IF ~answered \/ doctorId \notin DOMAIN doctors
    THEN out @@ [code |-> 404]
    ELSE out @@ [code |-> 200, body |-> AvailableSlots(doctorId, date)]

Available(doctorId, date, answered) ==
    /\ resp' = AvailableResponse(doctorId, date, answered)
    /\ UNCHANGED <<appointments, feedbacks, doctors, h, tz, notifications>>

----------------------------------------------------------------------------
(* PUT /api/doctors/:id/slots *)

\* findById, the owner check, the array check, then findByIdAndUpdate with
\* $set: the template is replaced by the array of the request, as given;
\* isArray tells whether the body carries an array
UpdateSlots(caller, id, isArray, availableSlots) ==
    /\ LET out == [op |-> "slots", caller |-> caller, id |-> id]
       IN
       IF id \notin DOMAIN doctors
       THEN /\ resp' = out @@ [code |-> 404]
            /\ UNCHANGED doctors
       ELSE IF Role(caller) # "admin" /\ caller # doctors[id].userId
       THEN /\ resp' = out @@ [code |-> 403]
            /\ UNCHANGED doctors
       ELSE IF ~isArray
       THEN /\ resp' = out @@ [code |-> 400]
            /\ UNCHANGED doctors
       ELSE /\ resp' = out @@ [code |-> 200]
            /\ doctors' = [doctors EXCEPT ![id].availableSlots = availableSlots]
    /\ UNCHANGED <<appointments, feedbacks, h, tz, notifications>>

----------------------------------------------------------------------------
(* POST /api/doctors *)

\* the _ids that new Doctor documents get, in the order of creation
DoctorIdPool == <<"D3", "D4", "D5", "D6">>

\* validation, the owner check, and the findOne for a profile of the user
Doctor_Check(i, caller, userId, valid) ==
    /\ CanStart(i)
    /\ LET req == [caller |-> caller, userId |-> userId, valid |-> valid]
           out == [op |-> "doctor", req |-> req]
       IN
       IF ~valid
       THEN /\ Respond(i, out @@ [code |-> 400, message |-> "validation"])
            /\ UNCHANGED <<appointments, feedbacks, doctors, tz, notifications>>
       ELSE IF Role(caller) # "admin" /\ caller # userId
       THEN /\ Respond(i, out @@ [code |-> 403, message |-> "Not authorized"])
            /\ UNCHANGED <<appointments, feedbacks, doctors, tz, notifications>>
       ELSE IF userId = BadId
       THEN /\ Respond(i, out @@ [code |-> 500, message |-> "Server error"])
            /\ UNCHANGED <<appointments, feedbacks, doctors, tz, notifications>>
       ELSE IF DoctorFindByUser(userId) # {}
       THEN /\ Respond(i, out @@ [code |-> 400,
                                  message |-> "Doctor profile already exists"])
            /\ UNCHANGED <<appointments, feedbacks, doctors, tz, notifications>>
       ELSE /\ Cardinality(DOMAIN doctors)
                 + Cardinality({j \in Slots : h[j].kind = "doctor"}) < MaxDoctors
            /\ h' = [h EXCEPT ![i] = [kind |-> "doctor", pc |-> "save", req |-> req]]
            /\ resp' = NoResponse
            /\ UNCHANGED <<appointments, feedbacks, doctors, tz, notifications>>

\* as UserIdIndexRefuses, but the collection has no unique index on userId
NoUserIdIndex(userId) == FALSE

\* the unique index on Doctor.userId: an insert of a second profile of the
\* same user is refused
UserIdIndexRefuses(userId) == DoctorFindByUser(userId) # {}

\* await doctor.save(): 201, or the duplicate-key error caught as 500
Doctor_Save(i) ==
    /\ h[i].kind = "doctor" /\ h[i].pc = "save"
    /\ LET out == [op |-> "doctor", req |-> h[i].req]
       IN
       IF UserIdIndexRefuses(h[i].req.userId)
       THEN /\ Respond(i, out @@ [code |-> 500, message |-> "Server error"])
            /\ UNCHANGED doctors
       ELSE /\ doctors' = doctors @@
                    (DoctorIdPool[Cardinality(DOMAIN doctors) - Cardinality(DoctorIds) + 1]
                        :> [userId |-> h[i].req.userId, availableSlots |-> <<>>])
            /\ Respond(i, out @@ [code |-> 201, message |-> ""])
    /\ UNCHANGED <<appointments, feedbacks, tz, notifications>>

----------------------------------------------------------------------------
(* GET /api/appointments *)

\* .sort({ date: 1, startTime: 1 }); documents that tie keep their _id order
SortsBefore(a, b) ==
    \/ appointments[a].date < appointments[b].date
    \/ /\ appointments[a].date = appointments[b].date
       /\ \/ StrLess(appointments[a].startTime, appointments[b].startTime)
          \/ appointments[a].startTime = appointments[b].startTime /\ a < b

RECURSIVE Sorted(_)
Sorted(ids) ==
    IF ids = {} THEN <<>>
    ELSE LET first == CHOOSE a \in ids : \A b \in ids \ {a} : SortsBefore(a, b)
         IN  <<first>> \o Sorted(ids \ {first})

\* as ListQuery, but without the patientId of a patient
ListQueryAnyPatient(caller, doctorId, status) ==
    {id \in ApptIds :
        /\ Role(caller) = "doctor" => appointments[id].doctorId = doctorId
        /\ status # "" => appointments[id].status = status}

\* as ListQuery, but without the doctorId of a doctor's query
ListQueryAnyDoctor(caller, doctorId, status) ==
    {id \in ApptIds :
        /\ Role(caller) = "patient" => appointments[id].patientId = caller
        /\ status # "" => appointments[id].status = status}

\* the query object: patientId for a patient, doctorId for a doctor, and the
\* status filter when one is given ("" when the request has none)
ListQuery(caller, doctorId, status) ==
    {id \in ApptIds :
        /\ Role(caller) = "patient" => appointments[id].patientId = caller
        /\ Role(caller) = "doctor" => appointments[id].doctorId = doctorId
        /\ status # "" => appointments[id].status = status}

\* what a lookup of the enrichment meets: the User Service answers 200,
\* answers an error status below 500, or the request throws (a status from
\* 500, or no answer); the Doctor Service answers, or the request throws
UserAnswers == {"200", "404", "throws"}

Lookups == [patient : UserAnswers, profile : {"answers", "throws"}, user : UserAnswers]

\* GET /api/doctors/:id as the enrichment sees it
ProfileAnswer(doctorId, lookup) ==
    IF lookup.profile = "throws" THEN "throws"
    ELSE IF doctorId \in DOMAIN doctors THEN "200"
    ELSE "404"

\* the three lookups of one appointment, made in turn inside one try block:
\* patient is set when the patient lookup answers 200, doctor when the profile
\* lookup and then the lookup of the profile's user answer 200; a request
\* that throws ends the block.  An omitted field is "".
Enriched(appointment, lookup) ==
    LET profile == ProfileAnswer(appointment.doctorId, lookup)
    IN  appointment @@
        [patient |-> IF lookup.patient = "200" THEN appointment.patientId ELSE "",
         doctor  |-> IF lookup.patient # "throws" /\ profile = "200"
                            /\ lookup.user = "200"
                     THEN doctors[appointment.doctorId].userId ELSE ""]

\* the documents of the answer, each with its _id
Documents(ids, lookups) ==
    [k \in 1..Len(ids) |->
        [id |-> ids[k]] @@ Enriched(appointments[ids[k]], lookups[ids[k]])]

\* the answer; lookups: for each appointment _id, what its lookups meet
ListResponse(caller, status, answered, lookups) ==
    LET out == [op |-> "list", caller |-> caller, status |-> status, code |-> 200,
                answered |-> answered, lookups |-> lookups]
        profile == DoctorFindByUser(caller)
    IN
    IF Role(caller) = "doctor" /\ (~answered \/ profile = {})
    THEN out @@ [body |-> <<>>]
    ELSE out @@
            [body |-> Documents(Sorted(ListQuery(caller,
                        IF Role(caller) = "doctor"
                        THEN CHOOSE d \in profile : TRUE ELSE "", status)),
                        lookups)]

List(caller, status, answered, lookups) ==
    /\ resp' = ListResponse(caller, status, answered, lookups)
    /\ UNCHANGED <<appointments, feedbacks, doctors, h, tz, notifications>>

----------------------------------------------------------------------------
(* GET /api/appointments/:id, as the Feedback Service calls it *)

\* as GetAppointment, but a doctor with a profile passes whatever the
\* appointment's doctorId
GetAppointmentAnyDoctor(caller, id, answered) ==
    IF id \notin ApptIds THEN 404
    ELSE IF Role(caller) # "admin" /\ caller # appointments[id].patientId
    THEN IF Role(caller) = "doctor"
         THEN IF ~answered \/ DoctorFindByUser(caller) = {} THEN 500
              ELSE 200
         ELSE 403
    ELSE 200

\* the status code of the answer: 404, 403, 500 or 200
GetAppointment(caller, id, answered) ==
    IF id \notin ApptIds THEN 404
    ELSE IF Role(caller) # "admin" /\ caller # appointments[id].patientId
    THEN IF Role(caller) = "doctor"
         THEN IF ~answered \/ DoctorFindByUser(caller) = {} THEN 500
              ELSE IF (CHOOSE d \in DoctorFindByUser(caller) : TRUE)
                        # appointments[id].doctorId
              THEN 403
              ELSE 200
         ELSE 403
    ELSE 200

\* the answer: findById throws a CastError for an id that does not cast,
\* which the catch answers with 404; body holds the appointment of a 200
GetResponse(caller, id, answered) ==
    LET code == IF id = BadApptId THEN 404
                ELSE GetAppointment(caller, id, answered)
    IN  [op |-> "get", caller |-> caller, id |-> id,
         answered |-> answered, code |-> code,
         body |-> IF code = 200 THEN <<appointments[id]>> ELSE <<>>]

Get(caller, id, answered) ==
    /\ resp' = GetResponse(caller, id, answered)
    /\ UNCHANGED <<appointments, feedbacks, doctors, h, tz, notifications>>

----------------------------------------------------------------------------
(* GET /api/appointments/upcoming *)

\* .limit(10)
UpcomingLimit == 10

\* the first n elements
Limit(s, n) == SubSeq(s, 1, IF Len(s) < n THEN Len(s) ELSE n)

\* the query object: scheduled, dated from the time of the request on, with
\* patientId for a patient and doctorId for a doctor
UpcomingQuery(caller, doctorId, now) ==
    {id \in ApptIds :
        /\ appointments[id].status = "scheduled"
        /\ appointments[id].date >= now
        /\ Role(caller) = "patient" => appointments[id].patientId = caller
        /\ Role(caller) = "doctor" => appointments[id].doctorId = doctorId}

\* the answer of the handler: the first ten of the sorted matches, enriched
UpcomingResponse(caller, answered, now, lookups) ==
    LET out == [op |-> "upcoming", caller |-> caller, code |-> 200,
                answered |-> answered]
        profile == DoctorFindByUser(caller)
    IN
    IF Role(caller) = "doctor" /\ (~answered \/ profile = {})
    THEN out @@ [body |-> <<>>]
    ELSE out @@
            [body |-> Documents(Limit(Sorted(UpcomingQuery(caller,
                        IF Role(caller) = "doctor"
                        THEN CHOOSE d \in profile : TRUE ELSE "", now)),
                        UpcomingLimit), lookups)]

----------------------------------------------------------------------------
(* The GET routes of the appointment router *)

\* the named segments of the route paths
Params == {":id", ":doctorId"}

\* the paths of the GET routes, segment by segment, in the order of their
\* router.get calls
GetRoutes ==
    << <<>>, <<":id">>, <<"doctor", ":doctorId", "available">>, <<"upcoming">> >>

\* a request path matches a route path of the same length whose segments are
\* named segments or equal the request's
Matches(pattern, path) ==
    /\ Len(pattern) = Len(path)
    /\ \A k \in 1..Len(pattern) : pattern[k] \in Params \/ pattern[k] = path[k]

\* the router hands the request to the first route that matches; <<"*">>
\* when none does
Route(path) ==
    LET matching == {k \in 1..Len(GetRoutes) : Matches(GetRoutes[k], path)}
    IN  IF matching = {} THEN <<"*">>
        ELSE GetRoutes[CHOOSE k \in matching : \A l \in matching : k <= l]

\* findById's cast of req.params.id: the _id the string writes, BadApptId for
\* a string that is no _id
ObjectId(param) ==
    IF \E n \in 1..9 : Digits[n + 1] = param
    THEN CHOOSE n \in 1..9 : Digits[n + 1] = param
    ELSE BadApptId

\* GET on a path under /api/appointments, answered by the handler of the
\* route it is handed to; query holds the status and date of the query
\* string, now is the time of the request
GetRequest(caller, path, query, answered, now, lookups) ==
    /\ LET route == Route(path)
           answer ==
               IF route = <<>>
               THEN ListResponse(caller, query.status, answered, lookups)
               ELSE IF route = <<":id">>
               THEN GetResponse(caller, ObjectId(path[1]), answered)
               ELSE IF route = <<"doctor", ":doctorId", "available">>
               THEN AvailableResponse(path[2], query.date, answered)
               ELSE IF route = <<"upcoming">>
               THEN UpcomingResponse(caller, answered, now, lookups)
               ELSE [op |-> "none", code |-> 404]
       IN  resp' = [op |-> "GET", caller |-> caller, path |-> path,
                    route |-> route, now |-> now, answer |-> answer]
    /\ UNCHANGED <<appointments, feedbacks, doctors, h, tz, notifications>>

----------------------------------------------------------------------------
(* POST /api/feedback *)

\* as AppointmentChecks, but without the check of the status
AppointmentChecksAnyStatus(caller, appointment) ==
    IF appointment.patientId # caller THEN 403 ELSE 200

\* as AppointmentChecks, but without the check of the patient
AppointmentChecksAnyCaller(caller, appointment) ==
    IF appointment.status # "completed" THEN 400 ELSE 200

\* the checks on the fetched appointment: it is the caller's (403 if not) and
\* it is completed (400 if not); 200 when both pass
AppointmentChecks(caller, appointment) ==
    IF appointment.patientId # caller THEN 403
    ELSE IF appointment.status # "completed" THEN 400
    ELSE 200

\* validation, the appointment fetched from the Appointment Service, and the
\* checks on it
Feedback_Fetch(i, caller, appointmentId, rating, answered) ==
    /\ CanStart(i)
    /\ LET req == [caller |-> caller, appointmentId |-> appointmentId,
                   rating |-> rating]
           out == [op |-> "feedback", req |-> req]
       IN
       IF rating < 1 \/ rating > 5
       THEN /\ Respond(i, out @@ [code |-> 400, message |-> "validation"])
            /\ UNCHANGED <<appointments, feedbacks, doctors, tz, notifications>>
       ELSE IF ~answered \/ GetAppointment(caller, appointmentId, answered) # 200
       THEN /\ Respond(i, out @@ [code |-> 404, message |-> "Appointment not found"])
            /\ UNCHANGED <<appointments, feedbacks, doctors, tz, notifications>>
       ELSE IF AppointmentChecks(caller, appointments[appointmentId]) = 403
       THEN /\ Respond(i, out @@ [code |-> 403, message |-> "Not authorized",
                                  fetched |-> appointments[appointmentId]])
            /\ UNCHANGED <<appointments, feedbacks, doctors, tz, notifications>>
       ELSE IF AppointmentChecks(caller, appointments[appointmentId]) = 400
       THEN /\ Respond(i, out @@
                    [code |-> 400, message |-> "Can only submit feedback for completed appointments",
                     fetched |-> appointments[appointmentId]])
            /\ UNCHANGED <<appointments, feedbacks, doctors, tz, notifications>>
       ELSE /\ h' = [h EXCEPT ![i] =
                        [kind |-> "feedback", pc |-> "findOne", req |-> req,
                         doc |-> appointments[appointmentId]]]
            /\ resp' = NoResponse
            /\ UNCHANGED <<appointments, feedbacks, doctors, tz, notifications>>

\* Feedback.findOne({ appointmentId })
ExistingFeedback(appointmentId) ==
    {k \in 1..Len(feedbacks) : feedbacks[k].appointmentId = appointmentId}

Feedback_FindOne(i) ==
    /\ h[i].kind = "feedback" /\ h[i].pc = "findOne"
    /\ IF ExistingFeedback(h[i].req.appointmentId) # {}
       THEN /\ Respond(i, [op |-> "feedback", req |-> h[i].req, code |-> 400,
                           message |-> "Feedback already submitted for this appointment",
                           fetched |-> h[i].doc])
            /\ UNCHANGED <<appointments, feedbacks, doctors, tz, notifications>>
       ELSE /\ h' = [h EXCEPT ![i].pc = "save"]
            /\ resp' = NoResponse
            /\ UNCHANGED <<appointments, feedbacks, doctors, tz, notifications>>

\* as UniqueIndexRefuses, but the collection has no unique index
NoUniqueIndex(appointmentId) == FALSE

\* the unique index on Feedback.appointmentId: an insert of a second document
\* with the same appointmentId is refused
UniqueIndexRefuses(appointmentId) == ExistingFeedback(appointmentId) # {}

\* await feedback.save(): 201, or the duplicate-key error caught as 500
Feedback_Save(i) ==
    /\ h[i].kind = "feedback" /\ h[i].pc = "save"
    /\ IF UniqueIndexRefuses(h[i].req.appointmentId)
       THEN /\ Respond(i, [op |-> "feedback", req |-> h[i].req, code |-> 500,
                           message |-> "Server error", fetched |-> h[i].doc])
            /\ UNCHANGED <<appointments, feedbacks, doctors, tz, notifications>>
       ELSE /\ feedbacks' = Append(feedbacks,
                    [appointmentId |-> h[i].req.appointmentId,
                     patientId |-> h[i].req.caller,
                     doctorId |-> h[i].doc.doctorId,
                     rating |-> h[i].req.rating])
            /\ Respond(i, [op |-> "feedback", req |-> h[i].req, code |-> 201,
                           message |-> "", fetched |-> h[i].doc])
            /\ UNCHANGED <<appointments, doctors, tz, notifications>>

\* GET /api/feedback/appointment/:appointmentId: findOne throws a CastError
\* for an id that does not cast, which the catch answers with 500
FeedbackOf(appointmentId) ==
    /\ resp' = [op |-> "feedbackOf", appointmentId |-> appointmentId,
                code |-> IF appointmentId = BadApptId THEN 500
                         ELSE IF ExistingFeedback(appointmentId) = {} THEN 404
                         ELSE 200]
    /\ UNCHANGED <<appointments, feedbacks, doctors, h, tz, notifications>>

----------------------------------------------------------------------------
(* Notification Service *)

\* the service URL constants that routes/notificationRoutes.js declares
ServiceUrls == {"USER_SERVICE_URL", "APPOINTMENT_SERVICE_URL"}

\* evaluating an identifier that the module does not declare throws a
\* ReferenceError
Declared(name) == name \in ServiceUrls

\* body('type').isIn([...])
NotificationTypes == {"new", "cancelled", "completed", "reminder"}

\* new Notification({userId, message, type: 'appointment', relatedId}); the
\* message is the text for the recipient and the event
NewNotification(userId, recipient, event, appointmentId) ==
    [userId |-> userId, message |-> <<recipient, event>>, type |-> "appointment",
     relatedId |-> appointmentId, isRead |-> FALSE, sentViaEmail |-> FALSE]

\* POST /api/notifications/appointment, for the request that the Appointment
\* Service left pending in slot i.  fetched, patientFound and doctorFound tell
\* whether the Appointment Service, the User Service for the patient, and the
\* Doctor and User Services for the doctor answer the lookups; patientMailed
\* and doctorMailed whether the recipient has an email address and the mail
\* is sent.  The URL of the doctor lookup is built from DOCTOR_SERVICE_URL.
Notification_Post(i, fetched, patientFound, doctorFound, patientMailed, doctorMailed) ==
    /\ h[i].kind = "notification"
    /\ LET appointmentId == h[i].appointmentId
           out == [op |-> "notify", appointmentId |-> appointmentId, type |-> h[i].type,
                   fetched |-> fetched, patientFound |-> patientFound,
                   doctorFound |-> doctorFound]
       IN
       IF h[i].type \notin NotificationTypes
       THEN /\ Respond(i, out @@ [code |-> 400, message |-> "validation"])
            /\ UNCHANGED notifications
       ELSE IF ~fetched \/ appointmentId \notin ApptIds
       THEN /\ Respond(i, out @@ [code |-> 404, message |-> "Appointment not found"])
            /\ UNCHANGED notifications
       ELSE IF ~patientFound
       THEN /\ Respond(i, out @@ [code |-> 500,
                                  message |-> "Error fetching patient details"])
            /\ UNCHANGED notifications
       ELSE IF \/ ~Declared("DOCTOR_SERVICE_URL")
               \/ ~doctorFound
               \/ appointments[appointmentId].doctorId \notin DOMAIN doctors
       THEN /\ Respond(i, out @@ [code |-> 500,
                                  message |-> "Error fetching doctor details"])
            /\ UNCHANGED notifications
       ELSE /\ notifications' = notifications \o
                    << [NewNotification(appointments[appointmentId].patientId,
                                        "patient", h[i].type, appointmentId)
                            EXCEPT !.sentViaEmail = patientMailed],
                       [NewNotification(doctors[appointments[appointmentId].doctorId].userId,
                                        "doctor", h[i].type, appointmentId)
                            EXCEPT !.sentViaEmail = doctorMailed] >>
            /\ Respond(i, out @@ [code |-> 201, message |-> ""])
    /\ UNCHANGED <<appointments, feedbacks, doctors, tz>>

\* PUT /api/notifications/:id/read
MarkRead(caller, id) ==
    /\ LET out == [op |-> "read", caller |-> caller, id |-> id]
       IN
       IF id \notin 1..Len(notifications)
       THEN /\ resp' = out @@ [code |-> 404]
            /\ UNCHANGED notifications
       ELSE IF notifications[id].userId # caller
       THEN /\ resp' = out @@ [code |-> 403]
            /\ UNCHANGED notifications
       ELSE /\ resp' = out @@ [code |-> 200]
            /\ notifications' = [notifications EXCEPT ![id].isRead = TRUE]
    /\ UNCHANGED <<appointments, feedbacks, doctors, h, tz>>

\* PUT /api/notifications/read-all: updateMany({userId, isRead: false},
\* {$set: {isRead: true}})
ReadAll(caller) ==
    /\ resp' = [op |-> "read-all", caller |-> caller, code |-> 200]
    /\ notifications' =
            [k \in 1..Len(notifications) |->
                IF notifications[k].userId = caller /\ ~notifications[k].isRead
                THEN [notifications[k] EXCEPT !.isRead = TRUE]
                ELSE notifications[k]]
    /\ UNCHANGED <<appointments, feedbacks, doctors, h, tz>>

----------------------------------------------------------------------------
(* Specifications *)

\* 1970-01-05 and 1970-01-06, a Monday and a Tuesday
Dates == {4, 5}

\* a server running in UTC
InitUTC ==
    /\ Init
    /\ tz = 0

\* nothing in flight: the next request is handled alone
AllIdle == \A j \in Slots : h[j] = Idle

\* Booking and availability, one request at a time: a patient books with
\* either doctor, the patient and an administrator set the status, and anyone
\* asks for the free slots.
NextSlots ==
    \/ \E i \in Slots, doctorId \in DoctorIds, date \in Dates,
          startTime \in {t0900, t0930, <<>>} :
            AllIdle /\ Book_Check(i, "p1", doctorId, date, startTime, t1000, "")
    \/ \E i \in Slots : Book_Save(i)
    \/ \E i \in Slots : Book_Respond(i)
    \/ \E i \in Slots, caller \in {"p1", "a1"}, id \in 1..MaxAppts, status \in Statuses :
            AllIdle /\ Status_Find(i, caller, id, status, "")
    \/ \E i \in Slots : Status_Save(i)
    \/ \E i \in Slots : Status_Respond(i)
    \/ \E i \in Slots, outcome \in {"delivered", "failed"} : NotificationSettled(i, outcome)
    \/ \E doctorId \in DoctorIds \cup {"D9"}, date \in Dates \cup {Undefined},
          answered \in BOOLEAN :
            AllIdle /\ Available(doctorId, date, answered)

SpecSlots == Init /\ [][NextSlots]_vars

\* The status workflow with handlers interleaved: a patient books with doctor
\* D1, and every user sends status updates.
Next ==
    \/ \E i \in Slots : Book_Check(i, "p1", "D1", 4, t0900, t1000, "")
    \/ \E i \in Slots : Book_Save(i)
    \/ \E i \in Slots : Book_Respond(i)
    \/ \E i \in Slots, caller \in Users, id \in 1..MaxAppts,
          status \in Statuses \cup {"pending"} :
            Status_Find(i, caller, id, status, "")
    \/ \E i \in Slots, answered \in BOOLEAN : Status_Lookup(i, answered)
    \/ \E i \in Slots : Status_Save(i)
    \/ \E i \in Slots : Status_Respond(i)
    \/ \E i \in Slots, outcome \in {"delivered", "failed"} : NotificationSettled(i, outcome)

Spec == InitUTC /\ [][Next]_vars

\* every lookup of the enrichment answers 200
AllFound == [id \in 1..MaxAppts |-> [patient |-> "200", profile |-> "answers", user |-> "200"]]

\* Listing and reading, one request at a time: two patients book with either
\* doctor, an administrator sets the status, with or without notes, and every
\* user lists and reads.
NextList ==
    \/ \E i \in Slots, caller \in Patients, doctorId \in DoctorIds :
            AllIdle /\ Book_Check(i, caller, doctorId, 4, t0900, t1000, "")
    \/ \E i \in Slots : Book_Save(i)
    \/ \E i \in Slots : Book_Respond(i)
    \/ \E i \in Slots, id \in 1..MaxAppts, status \in Statuses,
          notes \in {"", "follow up"} :
            AllIdle /\ Status_Find(i, "a1", id, status, notes)
    \/ \E i \in Slots : Status_Save(i)
    \/ \E i \in Slots : Status_Respond(i)
    \/ \E i \in Slots, outcome \in {"delivered", "failed"} : NotificationSettled(i, outcome)
    \/ \E caller \in Users, status \in Statuses \cup {""}, answered \in BOOLEAN :
            AllIdle /\ List(caller, status, answered, AllFound)
    \/ \E caller \in Users, id \in 1..MaxAppts, answered \in BOOLEAN :
            AllIdle /\ Get(caller, id, answered)

SpecList == InitUTC /\ [][NextList]_vars

\* Feedback with handlers interleaved: a patient books, an administrator sets
\* the status, and users submit feedback.
NextFeedback ==
    \/ \E i \in Slots : Book_Check(i, "p1", "D1", 4, t0900, t1000, "")
    \/ \E i \in Slots : Book_Save(i)
    \/ \E i \in Slots : Book_Respond(i)
    \/ \E i \in Slots, id \in 1..MaxAppts, status \in Statuses :
            Status_Find(i, "a1", id, status, "")
    \/ \E i \in Slots : Status_Save(i)
    \/ \E i \in Slots : Status_Respond(i)
    \/ \E i \in Slots, outcome \in {"delivered", "failed"} : NotificationSettled(i, outcome)
    \/ \E i \in Slots, caller \in {"p1", "p2", "u1", "a1"}, id \in 1..MaxAppts,
          rating \in {0, 5}, answered \in BOOLEAN :
            Feedback_Fetch(i, caller, id, rating, answered)
    \/ \E i \in Slots : Feedback_FindOne(i)
    \/ \E i \in Slots : Feedback_Save(i)

SpecFeedback == InitUTC /\ [][NextFeedback]_vars

\* start and end times a doctor may store in a template entry
t0915 == <<"0", "9", ":", "1", "5">>

t0945 == <<"0", "9", ":", "4", "5">>

t1015 == <<"1", "0", ":", "1", "5">>

t1100 == <<"1", "1", ":", "0", "0">>

\* an available Monday entry
Monday(s, e) == [day |-> "Monday", startTime |-> s, endTime |-> e, isAvailable |-> TRUE]

\* the templates sent to PUT /api/doctors/:id/slots: one Monday entry, or two
\* Monday entries that follow one another, overlap, or come later one first
Templates ==
    {<<Monday(s, e)>> :
        s \in {t0900, t0915, t0930, t0945}, e \in {t1000, t1015, t1030, t1100}}
    \cup {<<Monday(t0900, t1000), Monday(t1000, t1100)>>,
          <<Monday(t0900, t1000), Monday(t0930, t1030)>>,
          <<Monday(t1000, t1100), Monday(t0900, t1000)>>}

\* Templates and availability, one request at a time: doctors and the
\* administrator replace templates, a patient books with doctor D1 on a
\* Monday, and anyone asks for the free slots of that day.
NextTemplate ==
    \/ \E caller \in {"u1", "u2", "a1"}, id \in {"D1", "D9"},
          isArray \in BOOLEAN, availableSlots \in Templates \cup {<<>>} :
            AllIdle /\ UpdateSlots(caller, id, isArray, availableSlots)
    \/ \E i \in Slots, startTime \in {t0900, t0945, t1000} :
            AllIdle /\ Book_Check(i, "p1", "D1", 4, startTime, t1100, "")
    \/ \E i \in Slots : Book_Save(i)
    \/ \E i \in Slots : Book_Respond(i)
    \/ \E i \in Slots, outcome \in {"delivered", "failed"} : NotificationSettled(i, outcome)
    \/ \E answered \in BOOLEAN : AllIdle /\ Available("D1", 4, answered)

SpecTemplate == InitUTC /\ [][NextTemplate]_vars

\* The enrichment of the list, one request at a time: a patient books with
\* doctor D1 or with a doctorId that has no profile, and the patient and the
\* administrator list while the lookups meet every outcome.
NextEnrich ==
    \/ \E i \in Slots, doctorId \in {"D1", "D9"} :
            AllIdle /\ Book_Check(i, "p1", doctorId, 4, t0900, t1000, "")
    \/ \E i \in Slots : Book_Save(i)
    \/ \E i \in Slots : Book_Respond(i)
    \/ \E i \in Slots, outcome \in {"delivered", "failed"} : NotificationSettled(i, outcome)
    \/ \E caller \in {"p1", "a1"}, lookups \in [ApptIds -> Lookups] :
            AllIdle /\ List(caller, "", TRUE, lookups)

SpecEnrich == InitUTC /\ [][NextEnrich]_vars

\* Notifications, one request at a time: a patient books, an administrator
\* sets the status, the Notification Service handles the request that each of
\* them leaves pending, and users mark their notifications read.
NextNotify ==
    \/ \E i \in Slots, doctorId \in DoctorIds :
            AllIdle /\ Book_Check(i, "p1", doctorId, 4, t0900, t1000, "")
    \/ \E i \in Slots : Book_Save(i)
    \/ \E i \in Slots : Book_Respond(i)
    \/ \E i \in Slots, id \in 1..MaxAppts, status \in Statuses :
            AllIdle /\ Status_Find(i, "a1", id, status, "")
    \/ \E i \in Slots : Status_Save(i)
    \/ \E i \in Slots : Status_Respond(i)
    \/ \E i \in Slots, fetched, patientFound, doctorFound \in BOOLEAN,
          patientMailed, doctorMailed \in BOOLEAN :
            Notification_Post(i, fetched, patientFound, doctorFound,
                              patientMailed, doctorMailed)
    \/ \E caller \in {"p1", "u1"}, id \in 1..MaxAppts :
            AllIdle /\ MarkRead(caller, id)
    \/ \E caller \in {"p1", "u1"} : AllIdle /\ ReadAll(caller)

SpecNotify == InitUTC /\ [][NextNotify]_vars

\* Doctor profiles with handlers interleaved: users and the administrator
\* create profiles, and doctors replace templates.
NextDoctors ==
    \/ \E i \in Slots, caller \in {"u1", "u3", "a1", "p2"},
          userId \in {"u1", "u3", "p2"}, valid \in BOOLEAN :
            Doctor_Check(i, caller, userId, valid)
    \/ \E i \in Slots : Doctor_Save(i)
    \/ \E caller \in {"u1", "u3"}, id \in {"D1", "D3"}, isArray \in BOOLEAN :
            UpdateSlots(caller, id, isArray, <<>>)

SpecDoctors == InitUTC /\ [][NextDoctors]_vars

\* Requests with ids that do not cast or match no document, one request at a
\* time, to the appointment, doctor, feedback and notification routes.
NextErrors ==
    \/ \E i \in Slots, doctorId \in {"D1", "D9", BadId}, startTime \in {t0900, <<>>} :
            AllIdle /\ Book_Check(i, "p1", doctorId, 4, startTime, t1000, "")
    \/ \E i \in Slots : Book_Save(i)
    \/ \E i \in Slots : Book_Respond(i)
    \/ \E i \in Slots, outcome \in {"delivered", "failed"} : NotificationSettled(i, outcome)
    \/ \E i \in Slots, id \in BadApptId..MaxAppts, status \in {"completed", "pending"} :
            AllIdle /\ Status_Find(i, "a1", id, status, "")
    \/ \E i \in Slots : Status_Save(i)
    \/ \E i \in Slots : Status_Respond(i)
    \/ \E id \in BadApptId..MaxAppts : AllIdle /\ Get("p1", id, TRUE)
    \/ \E i \in Slots, id \in BadApptId..MaxAppts, rating \in {0, 5} :
            AllIdle /\ Feedback_Fetch(i, "p1", id, rating, TRUE)
    \/ \E i \in Slots : Feedback_FindOne(i)
    \/ \E i \in Slots : Feedback_Save(i)
    \/ \E id \in BadApptId..MaxAppts : AllIdle /\ FeedbackOf(id)
    \/ \E i \in Slots, userId \in {"u3", BadId}, valid \in BOOLEAN :
            AllIdle /\ Doctor_Check(i, "a1", userId, valid)
    \/ \E i \in Slots : Doctor_Save(i)
    \/ \E id \in {"D1", "D9", BadId}, isArray \in BOOLEAN :
            AllIdle /\ UpdateSlots("a1", id, isArray, <<>>)
    \/ \E id \in BadApptId..1 : AllIdle /\ MarkRead("p1", id)
    \/ \E doctorId \in {"D1", "D9", BadId}, date \in {4, Undefined} :
            AllIdle /\ Available(doctorId, date, TRUE)

SpecErrors == InitUTC /\ [][NextErrors]_vars

\* the request paths under /api/appointments: the list, an appointment by
\* its _id, the upcoming appointments, a doctor's available slots, and a path
\* of no route
Paths ==
    {<<>>, <<"1">>, <<"2">>, <<"upcoming">>, <<"doctor", "D1", "available">>,
     <<"doctor", "D1">>}

\* Routing, one request at a time: two patients book with D1 on either date,
\* an administrator sets the status, and a patient, a doctor and an
\* administrator send GET requests on every path at the start of either date.
NextRoutes ==
    \/ \E i \in Slots, caller \in Patients, date \in Dates :
            AllIdle /\ Book_Check(i, caller, "D1", date, t0900, t1000, "")
    \/ \E i \in Slots : Book_Save(i)
    \/ \E i \in Slots : Book_Respond(i)
    \/ \E i \in Slots, outcome \in {"delivered", "failed"} : NotificationSettled(i, outcome)
    \/ \E i \in Slots, id \in 1..MaxAppts, status \in Statuses :
            AllIdle /\ Status_Find(i, "a1", id, status, "")
    \/ \E i \in Slots : Status_Save(i)
    \/ \E i \in Slots : Status_Respond(i)
    \/ \E caller \in {"p1", "u1", "a1"}, path \in Paths, date \in Dates :
            AllIdle /\ GetRequest(caller, path, [status |-> "", date |-> 4], TRUE,
                                  ParseDate(date), AllFound)

SpecRoutes == InitUTC /\ [][NextRoutes]_vars

----------------------------------------------------------------------------
(* Properties *)

\* slot i takes a step
Acts(i) == h'[i] # h[i]

\* the step sends a response: resp' is new, or a handler ends with it
Responds ==
    /\ resp' # NoResponse
    /\ resp' # resp \/ \E i \in Slots : Acts(i) /\ h[i].kind \notin {"idle", "notification"}

\* the appointment is with that doctor on that date and not cancelled
Occupies(appointment, doctorId, date) ==
    /\ appointment.doctorId = doctorId
    /\ appointment.date = ParseDate(date)
    /\ appointment.status # "cancelled"

\* C1: no time in the list that GET /doctor/:doctorId/available returns is the
\* startTime of an appointment of that doctor on that date that is not
\* cancelled when the handler reads the appointments.
C1_NoBookedSlotOffered ==
    (resp.op = "available" /\ resp.code = 200) =>
        \A k \in 1..Len(resp.body) : \A id \in ApptIds :
            Occupies(appointments[id], resp.doctorId, resp.date)
                => appointments[id].startTime # resp.body[k]

\* a list with slots is returned while one appointment of the doctor on the
\* date is booked and another is cancelled, and the cancelled time is offered
C1_Witness ==
    /\ resp.op = "available" /\ resp.code = 200 /\ resp.body # <<>>
    /\ \E id \in ApptIds : Occupies(appointments[id], resp.doctorId, resp.date)
    /\ \E id \in ApptIds, k \in 1..Len(resp.body) :
            /\ appointments[id].doctorId = resp.doctorId
            /\ appointments[id].date = ParseDate(resp.date)
            /\ appointments[id].status = "cancelled"
            /\ appointments[id].startTime = resp.body[k]

SameSlot(r1, r2) ==
    r1.doctorId = r2.doctorId /\ r1.date = r2.date /\ r1.startTime = r2.startTime

\* C2: when a POST /api/appointments has succeeded and the next request is a
\* POST for the same doctorId, date and startTime, that POST is answered 400
\* 'This time slot is already booked' and creates no appointment.
C2_SecondBookingRejected ==
    [][(resp.op = "book" /\ resp.code = 201) =>
        /\ \A i \in Slots :
              (h[i] = Idle /\ h'[i].kind = "book") => ~SameSlot(h'[i].req, resp.req)
        /\ (Responds /\ resp'.op = "book" /\ SameSlot(resp'.req, resp.req)) =>
              /\ resp'.code = 400
              /\ resp'.message = "This time slot is already booked"
              /\ appointments' = appointments]_vars

\* a booking is refused for a slot that an appointment occupies
C2_Witness ==
    /\ resp.op = "book" /\ resp.code = 400
    /\ resp.message = "This time slot is already booked"
    /\ \E id \in ApptIds :
            /\ Occupies(appointments[id], resp.req.doctorId, resp.req.date)
            /\ appointments[id].startTime = resp.req.startTime

\* slot i holds a status update that found the appointment with a status in S
\* and the appointment still has that status
FoundIn(i, S) ==
    /\ h[i].kind = "status"
    /\ h[i].doc.status \in S
    /\ appointments[h[i].req.id].status = h[i].doc.status

\* C3: once an appointment is cancelled, no status update that finds it
\* cancelled sets its status to completed.
C3_CancelledNeverCompleted ==
    [][\A i \in Slots :
          (Acts(i) /\ FoundIn(i, {"cancelled"}))
              => appointments'[h[i].req.id].status # "completed"]_vars

\* C4: no status update that finds an appointment completed or cancelled
\* changes it back to scheduled.
C4_NeverBackToScheduled ==
    [][\A i \in Slots :
          (Acts(i) /\ FoundIn(i, {"completed", "cancelled"}))
              => appointments'[h[i].req.id].status # "scheduled"]_vars

IsOwnCancel(req) ==
    /\ req.id \in ApptIds
    /\ req.caller = appointments[req.id].patientId
    /\ req.status = "cancelled"

\* C5: a status update by a patient changes the appointment only if the
\* patient is the appointment's patientId and the requested status is
\* cancelled; every other update of an existing appointment to a valid status
\* is answered 403, and no update that is not answered 200 changes anything.
C5_PatientOnlyCancelsOwn ==
    [][/\ \A i \in Slots :
            (h[i].kind = "status" /\ Role(h[i].req.caller) = "patient")
                => IsOwnCancel(h[i].req)
       /\ \A i \in Slots :
            (Acts(i) /\ h'[i].kind = "status" /\ Role(h'[i].req.caller) = "patient")
                => IsOwnCancel(h'[i].req)
       /\ (Responds /\ resp'.op = "status" /\ Role(resp'.req.caller) = "patient") =>
            /\ resp'.code = 200 => IsOwnCancel(resp'.req)
            /\ (resp'.req.status \in Statuses /\ resp'.req.id \in ApptIds
                    /\ ~IsOwnCancel(resp'.req)) => resp'.code = 403
            /\ resp'.code # 200 => appointments' = appointments]_vars

\* a patient asks to cancel another patient's appointment and is answered 403
C5_Witness ==
    /\ resp.op = "status" /\ resp.code = 403
    /\ Role(resp.req.caller) = "patient"
    /\ resp.req.status = "cancelled"
    /\ resp.req.id \in ApptIds
    /\ resp.req.caller # appointments[resp.req.id].patientId

IsOwnDoctor(req) ==
    /\ req.id \in ApptIds
    /\ DoctorFindByUser(req.caller) = {appointments[req.id].doctorId}

\* C6: a status update by a doctor changes the appointment only if the profile
\* of the caller has the appointment's doctorId; a profile of another doctor is
\* answered 403, a lookup that fails 500, and neither changes the appointment.
C6_DoctorOnlyOwn ==
    [][/\ \A i \in Slots :
            (Acts(i) /\ h[i].kind = "status" /\ Role(h[i].req.caller) = "doctor"
                /\ appointments' # appointments) => IsOwnDoctor(h[i].req)
       /\ \A i \in Slots :
            (h[i].kind = "status" /\ Role(h[i].req.caller) = "doctor"
                /\ h[i].pc \in {"save", "notify"}) => IsOwnDoctor(h[i].req)
       /\ \A i \in Slots :
            (Acts(i) /\ h[i].kind = "status" /\ h[i].pc = "lookup"
                /\ ~IsOwnDoctor(h[i].req)) => resp'.code \in {403, 500}
       /\ (Responds /\ resp'.op = "status" /\ Role(resp'.req.caller) = "doctor") =>
            /\ resp'.code = 200 => IsOwnDoctor(resp'.req)
            /\ resp'.code # 200 => appointments' = appointments
            /\ resp'.code \in {403, 500} =>
                IF ~resp'.answered \/ DoctorFindByUser(resp'.req.caller) = {}
                THEN resp'.code = 500
                ELSE resp'.code = 403 /\ ~IsOwnDoctor(resp'.req)]_vars

\* a doctor with a profile asks to update another doctor's appointment and is
\* answered 403
C6_Witness ==
    /\ resp.op = "status" /\ resp.code = 403
    /\ Role(resp.req.caller) = "doctor"
    /\ DoctorFindByUser(resp.req.caller) # {}
    /\ ~IsOwnDoctor(resp.req)

\* C7: every appointment in the answer of GET /api/appointments to a patient
\* has the patient's id as patientId.
C7_PatientSeesOwnOnly ==
    (resp.op = "list" /\ Role(resp.caller) = "patient") =>
        \A k \in 1..Len(resp.body) : resp.body[k].patientId = resp.caller

\* a patient is answered a list with an appointment while another patient's
\* appointment is stored
C7_Witness ==
    /\ resp.op = "list" /\ Role(resp.caller) = "patient"
    /\ resp.body # <<>>
    /\ \E id \in ApptIds : appointments[id].patientId # resp.caller

\* C8: POST /api/feedback creates a Feedback document only if the appointment
\* it fetched is completed; for a fetched appointment that is scheduled or
\* cancelled it creates nothing and answers 400 to the appointment's patient.
C8_FeedbackOnlyCompleted ==
    [][/\ feedbacks' # feedbacks =>
            /\ resp'.op = "feedback" /\ resp'.code = 201
            /\ resp'.fetched.status = "completed"
       /\ \A i \in Slots : h'[i].kind = "feedback" => h'[i].doc.status = "completed"
       /\ (Responds /\ resp'.op = "feedback" /\ resp'.code \in {400, 403, 201, 500}
                /\ resp'.message # "validation"
                /\ resp'.fetched.status # "completed") =>
            /\ feedbacks' = feedbacks
            /\ resp'.code \in {400, 403}
            /\ resp'.req.caller = resp'.fetched.patientId => resp'.code = 400]_vars

\* the patient of a cancelled appointment submits feedback and is answered 400
C8_Witness ==
    /\ resp.op = "feedback" /\ resp.code = 400
    /\ resp.message = "Can only submit feedback for completed appointments"
    /\ resp.fetched.status = "cancelled"
    /\ resp.req.caller = resp.fetched.patientId

\* C9: at most one Feedback document exists per appointmentId, also when two
\* submissions are handled concurrently, and a submission whose findOne finds
\* a document is answered 400 and creates nothing.
C9_OneFeedbackPerAppointment ==
    [][/\ \A k1, k2 \in 1..Len(feedbacks') :
            feedbacks'[k1].appointmentId = feedbacks'[k2].appointmentId => k1 = k2
       /\ \A i \in Slots :
            (Acts(i) /\ h[i].kind = "feedback" /\ h[i].pc = "findOne"
                /\ ExistingFeedback(h[i].req.appointmentId) # {}) =>
                    /\ resp'.op = "feedback" /\ resp'.code = 400
                    /\ feedbacks' = feedbacks]_vars

\* two submissions for one appointment were handled concurrently: the second
\* save was refused while the first document is stored
C9_Witness ==
    /\ resp.op = "feedback" /\ resp.code = 500
    /\ ExistingFeedback(resp.req.appointmentId) # {}

\* C10: the appointment is stored before the notification request is issued;
\* the response is sent with the request, before any outcome, and the outcome
\* of the notification request changes neither the stored appointments nor
\* the response.
C10_NotificationDecoupled ==
    [][/\ \A i \in Slots :
            (h'[i].kind = "notification" /\ h[i].kind # "notification") =>
                /\ h'[i].appointmentId \in ApptIds
                /\ appointments' = appointments
                /\ resp'.code \in {200, 201}
                /\ resp'.body = h[i].doc
                /\ appointments[h'[i].appointmentId].patientId = resp'.body.patientId
                /\ appointments[h'[i].appointmentId].startTime = resp'.body.startTime
       /\ \A i \in Slots :
            (h[i].kind = "notification" /\ h'[i].kind # "notification") =>
                /\ appointments' = appointments
                /\ resp' = resp]_vars

\* the booking was answered 201 and its notification request is still pending
C10_Witness ==
    /\ resp.op = "book" /\ resp.code = 201
    /\ \E i \in Slots : h[i].kind = "notification" /\ h[i].appointmentId = resp.id

\* C11: the existence check of a booking reads the stored appointments only,
\* and a handler that passed it saves its appointment whatever has been stored
\* since; so two interleaved bookings of one slot both pass and both save.
C11_BookingRace ==
    [][\A i \in Slots :
          /\ (h[i] = Idle /\ h'[i].kind = "book") =>
                ExistingAppointment(h'[i].req.doctorId, h'[i].req.date,
                                    h'[i].req.startTime) = {}
          /\ (Acts(i) /\ h[i].kind = "book" /\ h[i].pc = "save") =>
                /\ appointments' = Append(appointments, h[i].doc)
                /\ h'[i].kind = "book" /\ h'[i].pc = "notify"]_vars

\* two bookings in flight have both saved, and their two appointments are
\* scheduled for the same doctor, date and startTime
C11_Witness ==
    /\ \A i \in Slots : h[i].kind = "book" /\ h[i].pc = "notify"
    /\ \E i, j \in Slots :
            /\ h[i].id # h[j].id
            /\ SameSlot(h[i].req, h[j].req)
            /\ appointments[h[i].id].status = "scheduled"
            /\ appointments[h[j].id].status = "scheduled"
            /\ appointments[h[i].id].doctorId = appointments[h[j].id].doctorId
            /\ appointments[h[i].id].date = appointments[h[j].id].date
            /\ appointments[h[i].id].startTime = appointments[h[j].id].startTime

\* "HH:MM" as minutes since midnight
Minutes(t) == Nth(Split(t, ":"), 1) * 60 + Nth(Split(t, ":"), 2)

\* the times S, S + 30min, S + 60min, ... strictly before E, as "HH:MM"
HalfHours(S, E) ==
    [k \in 1..(IF Minutes(E) <= Minutes(S) THEN 0
               ELSE ((Minutes(E) - Minutes(S) - 1) \div 30) + 1) |->
        TimeString((Minutes(S) + 30 * (k - 1)) \div 60,
                   (Minutes(S) + 30 * (k - 1)) % 60)]

\* the template entries that the answer in resp was computed from
AnsweredEntries ==
    DaySlots(doctors[resp.doctorId].availableSlots,
             DayOfWeek(ParseDate(resp.date), tz))

\* C12: for a template entry from S to E, the list of free slots is the times
\* S, S + 30min, S + 60min, ... strictly before E, each 30 minutes after the
\* one before, without those in the booked set; for every S, also one whose
\* minute is neither 00 nor 30.
C12_ThirtyMinuteSteps ==
    (resp.op = "available" /\ resp.code = 200 /\ Len(AnsweredEntries) = 1) =>
        resp.body =
            SelectSeq(HalfHours(AnsweredEntries[1].startTime, AnsweredEntries[1].endTime),
                      LAMBDA t : t \notin BookedTimes(resp.doctorId, resp.date))

\* C13: every free slot t that is returned lies in a template entry from S
\* to E with S <= t and t + 30 minutes <= E: an interval shorter than 30
\* minutes at the end of an entry yields no slot.
C13_PartialIntervalDropped ==
    (resp.op = "available" /\ resp.code = 200) =>
        \A k \in 1..Len(resp.body) :
            \E e \in 1..Len(AnsweredEntries) :
                /\ Minutes(AnsweredEntries[e].startTime) <= Minutes(resp.body[k])
                /\ Minutes(resp.body[k]) + 30 <= Minutes(AnsweredEntries[e].endTime)

\* the weekday of the calendar day that a date string names
CalendarWeekday(day) == WeekdayNames[((day + 4) % 7) + 1]

\* the template has no entry for the weekday, or only unavailable ones
NoAvailableEntry(template, weekday) ==
    \A k \in 1..Len(template) : template[k].day = weekday => ~template[k].isAvailable

SameCreationFields(a, b) ==
    /\ a.patientId = b.patientId /\ a.doctorId = b.doctorId /\ a.date = b.date
    /\ a.startTime = b.startTime /\ a.endTime = b.endTime /\ a.reason = b.reason
    /\ a.notificationSent = b.notificationSent

\* C15: no step changes a field of a stored appointment other than status:
\* patientId, doctorId, date, startTime, endTime, reason, notes and
\* notificationSent stay as they are.
C15_OnlyStatusChanges ==
    [][\A id \in ApptIds :
          /\ SameCreationFields(appointments[id], appointments'[id])
          /\ appointments'[id].notes = appointments[id].notes]_vars

\* C15 as amended: no step changes patientId, doctorId, date, startTime,
\* endTime, reason or notificationSent of a stored appointment; status and
\* notes change only in the save of a status update of that appointment, notes
\* only to the non-empty notes of the request.
C15_OnlyStatusAndNotesChange ==
    [][\A id \in ApptIds :
          /\ SameCreationFields(appointments[id], appointments'[id])
          /\ appointments'[id].status # appointments[id].status =>
                \E i \in Slots :
                    /\ Acts(i) /\ h[i].kind = "status" /\ h[i].req.id = id
                    /\ appointments'[id].status = h[i].req.status
          /\ appointments'[id].notes # appointments[id].notes =>
                \E i \in Slots :
                    /\ Acts(i) /\ h[i].kind = "status" /\ h[i].req.id = id
                    /\ h[i].req.notes # ""
                    /\ appointments'[id].notes = h[i].req.notes]_vars

\* a status update without notes was answered 200 for an appointment that
\* keeps the notes of an earlier update
C15_Witness ==
    /\ resp.op = "status" /\ resp.code = 200 /\ resp.req.notes = ""
    /\ appointments[resp.req.id].notes # ""
    /\ appointments[resp.req.id].status = resp.req.status

\* C16: whichever lookups of the enrichment fail, with an error status or a
\* thrown error, the list is answered 200 with every appointment that matches
\* the query, and a field is omitted exactly when a lookup for it failed:
\* patient when the patient lookup fails, doctor when the profile lookup or
\* the lookup of the doctor's user fails.
C16_OnlyFailedFieldsOmitted ==
    (resp.op = "list" /\ Role(resp.caller) # "doctor") =>
        /\ resp.code = 200
        /\ {resp.body[k].id : k \in 1..Len(resp.body)}
                = ListQuery(resp.caller, "", resp.status)
        /\ \A k \in 1..Len(resp.body) :
              LET lookup == resp.lookups[resp.body[k].id]
              IN  /\ resp.body[k].patient = "" <=> lookup.patient # "200"
                  /\ resp.body[k].doctor = "" <=>
                        \/ ProfileAnswer(resp.body[k].doctorId, lookup) # "200"
                        \/ lookup.user # "200"

\* C17: for an appointment event of type new, cancelled, completed or
\* reminder about a stored appointment, when the Appointment, User and Doctor
\* Services answer the lookups, POST /api/notifications/appointment answers
\* 201 and creates exactly two Notification documents, of type 'appointment'
\* and with the appointmentId as relatedId: one for the appointment's
\* patientId and one for the user id of its doctor.
C17_TwoNotificationsPerEvent ==
    [][(resp'.op = "notify" /\ \E i \in Slots : Acts(i) /\ h[i].kind = "notification")
          => ((resp'.type \in NotificationTypes /\ resp'.appointmentId \in ApptIds
                    /\ resp'.fetched /\ resp'.patientFound /\ resp'.doctorFound)
                => /\ resp'.code = 201
                   /\ Len(notifications') = Len(notifications) + 2
                   /\ \A k \in Len(notifications) + 1 .. Len(notifications') :
                          /\ notifications'[k].type = "appointment"
                          /\ notifications'[k].relatedId = resp'.appointmentId
                   /\ notifications'[Len(notifications) + 1].userId
                          = appointments[resp'.appointmentId].patientId
                   /\ notifications'[Len(notifications) + 2].userId
                          = doctors[appointments[resp'.appointmentId].doctorId].userId)]_vars

\* C20: at most one Doctor document exists per userId, also when two creates
\* for the userId are handled concurrently; a valid create by the user or an
\* administrator that is handled while a profile of the userId exists is
\* answered 400 'Doctor profile already exists', a valid create by a caller
\* who is neither administrator nor that user 403, and neither changes the
\* collection.
C20_OneProfilePerUser ==
    [][/\ \A d1, d2 \in DOMAIN doctors' :
            doctors'[d1].userId = doctors'[d2].userId => d1 = d2
       /\ \A i \in Slots :
            (h[i] = Idle /\ h'[i].kind = "doctor") =>
                /\ DoctorFindByUser(h'[i].req.userId) = {}
                /\ Role(h'[i].req.caller) = "admin" \/ h'[i].req.caller = h'[i].req.userId
       /\ (Responds /\ resp'.op = "doctor" /\ resp'.req.valid
                /\ \E i \in Slots : Acts(i) /\ h[i] = Idle) =>
            /\ doctors' = doctors
            /\ IF Role(resp'.req.caller) # "admin" /\ resp'.req.caller # resp'.req.userId
               THEN resp'.code = 403
               ELSE DoctorFindByUser(resp'.req.userId) # {} =>
                        /\ resp'.code = 400
                        /\ resp'.message = "Doctor profile already exists"]_vars

\* two creates for one userId were handled concurrently: the second save was
\* refused while the profile of the first is stored
C20_Witness ==
    /\ resp.op = "doctor" /\ resp.code = 500
    /\ Cardinality(DoctorFindByUser(resp.req.userId)) = 1
    /\ \E d \in DoctorFindByUser(resp.req.userId) : d \notin DoctorIds

\* C19: on the appointment, doctor, feedback and notification routes, a
\* request with an invalid body is answered 400, and a request whose id, in
\* the path or in the body, does not cast or matches no document is answered
\* 404, never 500.
C19_UniformErrors ==
    /\ resp.op = "book" =>
            IF resp.req.startTime = <<>> THEN resp.code = 400
            ELSE resp.req.doctorId \notin DOMAIN doctors => resp.code = 404
    /\ resp.op = "status" =>
            IF resp.req.status \notin Statuses THEN resp.code = 400
            ELSE resp.req.id \notin ApptIds => resp.code = 404
    /\ resp.op = "get" => (resp.id \notin ApptIds => resp.code = 404)
    /\ resp.op = "available" =>
            IF resp.date = Undefined THEN resp.code = 400
            ELSE resp.doctorId \notin DOMAIN doctors => resp.code = 404
    /\ resp.op = "feedback" =>
            IF resp.req.rating < 1 \/ resp.req.rating > 5 THEN resp.code = 400
            ELSE resp.req.appointmentId \notin ApptIds => resp.code = 404
    /\ resp.op = "feedbackOf" =>
            (ExistingFeedback(resp.appointmentId) = {} => resp.code = 404)
    /\ resp.op = "doctor" =>
            IF ~resp.req.valid THEN resp.code = 400
            ELSE resp.req.userId = BadId => resp.code = 404
    /\ resp.op = "slots" => (resp.id \notin DOMAIN doctors => resp.code = 404)
    /\ resp.op = "read" => (resp.id \notin 1..Len(notifications) => resp.code = 404)

\* C21: the answer of GET /api/appointments to a doctor holds only appointments
\* whose doctorId is the _id of the caller's doctor profile, and it is the
\* empty list when the profile lookup answers 404 or throws.
C21_DoctorSeesOwnOnly ==
    (resp.op = "list" /\ Role(resp.caller) = "doctor") =>
        IF resp.answered /\ DoctorFindByUser(resp.caller) # {}
        THEN \A k \in 1..Len(resp.body) :
                resp.body[k].doctorId \in DoctorFindByUser(resp.caller)
        ELSE resp.body = <<>>

\* a doctor is answered a list with an appointment while another doctor's
\* appointment is stored
C21_Witness ==
    /\ resp.op = "list" /\ Role(resp.caller) = "doctor"
    /\ resp.body # <<>>
    /\ \E id \in ApptIds :
            appointments[id].doctorId \notin DoctorFindByUser(resp.caller)

\* the appointment's doctorId is the _id of a doctor profile of this user
IsProfileOf(caller, appointment) ==
    /\ appointment.doctorId \in DOMAIN doctors
    /\ doctors[appointment.doctorId].userId = caller

\* an administrator, the appointment's patient, or the appointment's doctor
MayView(caller, appointment) ==
    \/ Role(caller) = "admin"
    \/ caller = appointment.patientId
    \/ Role(caller) = "doctor" /\ IsProfileOf(caller, appointment)

\* C22: GET /api/appointments/:id answers with the appointment only to an
\* administrator, the appointment's patient or the doctor whose profile _id is
\* its doctorId; any other caller is answered 403, or 500 when the caller is a
\* doctor whose profile lookup fails, and no appointment data.
C22_ViewAuthorized ==
    (resp.op = "get" /\ resp.id \in ApptIds) =>
        LET appointment == appointments[resp.id]
            lookupFails == \/ ~resp.answered
                           \/ \A d \in DOMAIN doctors : doctors[d].userId # resp.caller
        IN  IF MayView(resp.caller, appointment)
            THEN IF \/ Role(resp.caller) = "admin"
                    \/ resp.caller = appointment.patientId
                    \/ resp.answered
                 THEN resp.code = 200 /\ resp.body = <<appointment>>
                 ELSE resp.code = 500 /\ resp.body = <<>>
            ELSE /\ resp.body = <<>>
                 /\ resp.code = IF Role(resp.caller) = "doctor" /\ lookupFails
                                THEN 500 ELSE 403

\* a doctor with a profile is refused another doctor's appointment
C22_Witness ==
    /\ resp.op = "get" /\ resp.id \in ApptIds
    /\ Role(resp.caller) = "doctor" /\ resp.answered
    /\ \E d \in DOMAIN doctors : doctors[d].userId = resp.caller
    /\ ~MayView(resp.caller, appointments[resp.id])
    /\ resp.code = 403 /\ resp.body = <<>>

\* C23: GET /api/appointments/upcoming is answered by the upcoming handler,
\* with 200 and a list of at most 10 appointments, each scheduled, dated not
\* before the time of the request, and the caller's own for a patient or a
\* doctor.
C23_UpcomingAnswered ==
    (resp.op = "GET" /\ resp.path = <<"upcoming">>) =>
        /\ resp.route = <<"upcoming">>
        /\ resp.answer.op = "upcoming"
        /\ resp.answer.code = 200
        /\ Len(resp.answer.body) <= UpcomingLimit
        /\ \A k \in 1..Len(resp.answer.body) :
            LET appointment == resp.answer.body[k]
            IN  /\ appointment.status = "scheduled"
                /\ appointment.date >= resp.now
                /\ Role(resp.caller) = "patient" =>
                        appointment.patientId = resp.caller
                /\ Role(resp.caller) = "doctor" =>
                        IsProfileOf(resp.caller, appointment)

\* C25: every Feedback document carries the patientId and the doctorId of the
\* appointment it refers to; a submission that passes validation, by a caller
\* who is not the appointment's patient, creates nothing and is answered 403
\* or 404.
C25_FeedbackOfOwnAppointment ==
    [][/\ \A k \in 1..Len(feedbacks') :
            /\ feedbacks'[k].appointmentId \in 1..Len(appointments')
            /\ feedbacks'[k].patientId =
                    appointments'[feedbacks'[k].appointmentId].patientId
            /\ feedbacks'[k].doctorId =
                    appointments'[feedbacks'[k].appointmentId].doctorId
       /\ \A i \in Slots :
            (h'[i].kind = "feedback" /\ h'[i].req.appointmentId \in ApptIds) =>
                h'[i].req.caller = appointments[h'[i].req.appointmentId].patientId
       /\ (Responds /\ resp'.op = "feedback" /\ resp'.message # "validation"
                /\ resp'.req.appointmentId \in ApptIds
                /\ resp'.req.caller # appointments[resp'.req.appointmentId].patientId) =>
            /\ feedbacks' = feedbacks
            /\ resp'.code \in {403, 404}]_vars

\* a Feedback document is stored, and an administrator who submitted for the
\* completed appointment of a patient was answered 403
C25_Witness ==
    /\ feedbacks # <<>>
    /\ resp.op = "feedback" /\ resp.code = 403
    /\ Role(resp.req.caller) = "admin"
    /\ resp.fetched.status = "completed"

\* C26: no two appointments that are not cancelled have the same doctorId,
\* date and startTime, requests being handled one at a time.
C26_NoDoubleBooking ==
    \A a, b \in ApptIds :
        (/\ a # b
         /\ appointments[a].status # "cancelled"
         /\ appointments[b].status # "cancelled") =>
            ~(/\ appointments[a].doctorId = appointments[b].doctorId
              /\ appointments[a].date = appointments[b].date
              /\ appointments[a].startTime = appointments[b].startTime)

\* C27: every Feedback document refers to an appointment whose status is
\* completed.
C27_FeedbackOfCompleted ==
    \A k \in 1..Len(feedbacks) :
        /\ feedbacks[k].appointmentId \in ApptIds
        /\ appointments[feedbacks[k].appointmentId].status = "completed"

\* C28: the startTime of every appointment that POST /api/appointments creates
\* is in the list the available-slots computation gives for its doctor and
\* date when it is created.
C28_BookedSlotWasOffered ==
    [][\A i \in Slots :
          (Acts(i) /\ h[i].kind = "book" /\ h[i].pc = "save"
              /\ Len(appointments') = Len(appointments) + 1) =>
            \E k \in 1..Len(AvailableSlots(h[i].req.doctorId, h[i].req.date)) :
                AvailableSlots(h[i].req.doctorId, h[i].req.date)[k]
                    = appointments'[Len(appointments')].startTime]_vars

\* C29: the list GET /doctor/:doctorId/available answers with is strictly
\* ascending, and so without a time twice, whatever template is stored, also
\* one with more than one entry for the weekday.
C29_SlotsAscending ==
    (resp.op = "available" /\ resp.code = 200) =>
        \A k \in 1..(Len(resp.body) - 1) :
            Minutes(resp.body[k]) < Minutes(resp.body[k + 1])

====
